---- MODULE Spec2Model ----
(***************************************************************************)
(* jut: render the cells of a Jupyter notebook in the terminal.            *)
(*                                                                         *)
(* One behaviour of this module is one run: either the `display` command   *)
(* of jut/cli.py (entry = "cli") or the library use of the unit tests,     *)
(* Config(data) followed by Render(config).render() (entry = "api").       *)
(* The run constructs the Config (pydantic field validation, then the root *)
(* validator), parses the notebook, resolves the window of cells in        *)
(* Render.iter_cells and formats and prints the cells one by one.          *)
(*                                                                         *)
(* What lies outside jut/ is modelled at its interface only: click's       *)
(* IntRange(min=1) rejects an option below 1 with exit code 2, pydantic    *)
(* v1 validates the fields by their annotations and then runs the root     *)
(* validator on the fields that passed, nbformat.read either returns the   *)
(* node or raises NotJSONError, and rich's console receives the panels.    *)
(* single_page and force_colors only choose how the console draws and are  *)
(* left out of the state.                                                  *)
(***************************************************************************)
EXTENDS Integers, Sequences, FiniteSets

VARIABLES
    entry,      \* "cli": jut.cli.display, "api": Config(data); Render(config).render()
    args,       \* what the user passed: head, tail, start, end, flags, the path
    notebook,   \* the cells stored in the file the path names
    pc,         \* position of the run
    config,     \* the Config object, once constructed
    node,       \* Render.node.cells, once parsed
    block,      \* iter_cells: the cells of the window not yet yielded
    start,      \* iter_cells: the local counter `start`
    yielded,    \* the (index, cell) pairs iter_cells has yielded
    printed,    \* the panels handed to console.print, in order
    exc,        \* the exception that ended the run, "none" if none
    exit_code   \* the exit code of the command (NoExit while running, or for "api")

vars == <<entry, args, notebook, pc, config, node, block, start, yielded,
          printed, exc, exit_code>>

----------------------------------------------------------------------------
(* Bounds of the model *)

MaxCells == 3       \* documents of 0 .. MaxCells cells
MaxN == 4           \* head, tail, start, end range over -1 .. MaxN (and None)
MaxOutputs == 2     \* output records per code cell of the formatting documents
MaxKinds == 2       \* content-kinds in one data mapping of those documents

(* Python's None for the Optional[int] fields: an integer no option takes. *)
None == 0 - 1000

NoExit == 0 - 999

DefaultHead == 10

Max(a, b) == IF a >= b THEN a ELSE b
Min(a, b) == IF a <= b THEN a ELSE b

(* Python truthiness of an Optional[int]: None and 0 are false. *)
Truthy(v) == v # None /\ v # 0

----------------------------------------------------------------------------
(* Texts: the notebook's strings. origin says where the text comes from,   *)
(* form whether it is a str or another JSON value (str(val) makes it str). *)

Text(origin, id, form) == [origin |-> origin, id |-> id, form |-> form]
EmptyText == Text("", 0, "str")          \* ""
NoneText == Text("None", 0, "none")      \* None where a text is expected

PyStr(val) == [val EXCEPT !.form = "str"]

(* Truthiness of a payload: None and "" are false. *)
Populated(val) == val # NoneText /\ val # EmptyText

----------------------------------------------------------------------------
(* OUTPUT_TYPES_TO_LEXER_NAMES, in the dict's insertion order (the second  *)
(* "application/geo+json" entry overwrites the first and adds no key).     *)

OUTPUT_TYPES_TO_LEXER_NAMES ==
    << <<"text", "python">>,
       <<"text/plain", "python">>,
       <<"text/html", "html">>,
       <<"application/vnd.jupyter.widget-view+json", "json">>,
       <<"application/x-ipynb+json", "json">>,
       <<"application/vnd.geo+json", "json">>,
       <<"application/geo+json", "json">>,
       <<"application/vnd.plotly.v1+json", "json">>,
       <<"application/vdom.v1+json", "json">>,
       <<"image/png", "png">>,
       <<"image/jpg", "jpg">>,
       <<"text/latex", "latex">>,
       <<"image/svg+xml", "svg">>,
       <<"image/jpeg", "jpeg">>,
       <<"image/gif", "gif">>,
       <<"application/pdf", "pdf">> >>

LexerOf(key) ==
    LET i == CHOOSE j \in 1..Len(OUTPUT_TYPES_TO_LEXER_NAMES) :
                 OUTPUT_TYPES_TO_LEXER_NAMES[j][1] = key
    IN OUTPUT_TYPES_TO_LEXER_NAMES[i][2]

NotRenderable == {"png", "jpg", "jpeg", "gif", "svg", "pdf", "latex"}

(* mutant: latex is left out of the tuple. *)
can_render_in_terminal_latex(mime_type) ==
    mime_type \notin (NotRenderable \ {"latex"})

can_render_in_terminal(mime_type) == mime_type \notin NotRenderable

----------------------------------------------------------------------------
(* Config: the pydantic model. Field validation first, by the annotations: *)
(* head is PositiveInt (required, None not allowed), tail, start and end   *)
(* are Optional[PositiveInt]. A field that fails is recorded as an error   *)
(* and is absent from `values`, where values.get(...) then gives None.     *)

PositiveIntOK(v) == v # None /\ v > 0

OptionalPositiveIntOK(v) == v = None \/ v > 0

(* validate_input_file: an existing directory is rejected. *)
InputFileOK(val) == val # "dir"

FieldErrors(data) ==
    \/ ~InputFileOK(data.input_file)
    \/ ~PositiveIntOK(data.head)
    \/ ~OptionalPositiveIntOK(data.tail)
    \/ ~OptionalPositiveIntOK(data.start)
    \/ ~OptionalPositiveIntOK(data.end)

(* The values the root validator receives. exclude_output_cells and        *)
(* no_cell_border are no fields of Config: pydantic ignores them.          *)
FieldValues(data) ==
    [head |-> IF PositiveIntOK(data.head) THEN data.head ELSE None,
     tail |-> IF OptionalPositiveIntOK(data.tail) THEN data.tail ELSE None,
     start |-> IF OptionalPositiveIntOK(data.start) THEN data.start ELSE None,
     end |-> IF OptionalPositiveIntOK(data.end) THEN data.end ELSE None,
     full_display |-> data.full_display]

(* mutant: a supplied tail leaves head as it is. *)
validate_tail_keeps_head(values) ==
    LET val == values.tail IN
    IF val # None /\ val > 0
    THEN [values EXCEPT
            !.start = IF Truthy(values.start) THEN None ELSE values.start,
            !.end = IF Truthy(values.end) THEN None ELSE values.end]
    ELSE values

validate_tail(values) ==
    LET val == values.tail IN
    IF val # None /\ val > 0
    THEN [values EXCEPT
            !.head = IF Truthy(values.head) THEN None ELSE values.head,
            !.start = IF Truthy(values.start) THEN None ELSE values.start,
            !.end = IF Truthy(values.end) THEN None ELSE values.end]
    ELSE values

(* mutant: start = end passes (start > end where the code has >=). *)
validate_cell_range_strict(values) ==
    IF values.start = None \/ values.end = None
    THEN [raised |-> FALSE, values |-> values]
    ELSE IF values.start >= 0 /\ values.end >= 0
    THEN IF values.start > values.end
         THEN [raised |-> TRUE, values |-> values]
         ELSE [raised |-> FALSE,
               values |-> [values EXCEPT !.head = None, !.tail = None]]
    ELSE [raised |-> FALSE, values |-> values]

(* mutant: a valid range clears tail and leaves head. *)
validate_cell_range_keeps_head(values) ==
    IF values.start = None \/ values.end = None
    THEN [raised |-> FALSE, values |-> values]
    ELSE IF values.start >= 0 /\ values.end >= 0
    THEN IF values.start >= values.end
         THEN [raised |-> TRUE, values |-> values]
         ELSE [raised |-> FALSE, values |-> [values EXCEPT !.tail = None]]
    ELSE [raised |-> FALSE, values |-> values]

(* validate_cell_range either raises ValueError or returns the values. *)
validate_cell_range(values) ==
    IF values.start = None \/ values.end = None
    THEN [raised |-> FALSE, values |-> values]
    ELSE IF values.start >= 0 /\ values.end >= 0
    THEN IF values.start >= values.end
         THEN [raised |-> TRUE, values |-> values]
         ELSE IF values.start <= values.end
         THEN [raised |-> FALSE,
               values |-> [values EXCEPT !.head = None, !.tail = None]]
         ELSE [raised |-> FALSE, values |-> values]
    ELSE [raised |-> FALSE, values |-> values]

validate_all(values) == validate_cell_range(validate_tail(values))

NoConfig ==
    [head |-> None, tail |-> None, start |-> None, end |-> None,
     full_display |-> FALSE]

(* Config(data): ok with the object, or ValidationError. *)
NewConfig(data) ==
    LET r == validate_all(FieldValues(data)) IN
    IF FieldErrors(data) \/ r.raised
    THEN [ok |-> FALSE, config |-> NoConfig]
    ELSE [ok |-> TRUE, config |-> r.values]

is_cell_range(cfg) == cfg.start <= cfg.end

----------------------------------------------------------------------------
(* Python's slice s[lo:hi] of a list, None for an omitted end: a negative  *)
(* index counts from the end, and both ends are clipped to the list.       *)

SliceIndex(i, n, default) ==
    IF i = None THEN default
    ELSE IF i < 0 THEN Max(i + n, 0)
    ELSE Min(i, n)

PySlice(s, lo, hi) ==
    LET n == Len(s)
        a == SliceIndex(lo, n, 0)
        b == SliceIndex(hi, n, n)
    IN SubSeq(s, a + 1, b)

(* Render.iter_cells up to its loop: the block it selects and the initial  *)
(* value of `start`, branch by branch.                                     *)

Window(block_, start_) == [err |-> "none", block |-> block_, start |-> start_]

FullBlock(cfg, cells) == Window(cells, 0)

HeadBlock(cfg, cells) == Window(PySlice(cells, None, cfg.head), 0)

(* mutant: the slice written with the same difference as `start`, which    *)
(* is negative, and so counts from the end, when tail exceeds the length.  *)
TailBlock_wraps(cfg, cells) ==
    Window(PySlice(cells, Len(cells) - cfg.tail, None),
           Max(Len(cells) - cfg.tail, 0))

TailBlock(cfg, cells) ==
    Window(PySlice(cells, 0 - cfg.tail, None), Max(Len(cells) - cfg.tail, 0))

(* mutant: the counter starts at config.start, not config.start - 1. *)
RangeBlock_start(cfg, cells) ==
    Window(PySlice(cells, cfg.start - 1, cfg.end), cfg.start)

(* mutant: end taken as exclusive. *)
RangeBlock_exclusive(cfg, cells) ==
    Window(PySlice(cells, cfg.start - 1, cfg.end - 1), cfg.start - 1)

RangeBlock(cfg, cells) ==
    Window(PySlice(cells, cfg.start - 1, cfg.end), cfg.start - 1)

NoBlock == [err |-> "TypeError", block |-> <<>>, start |-> 0]

(* mutant: head is tested before full_display. *)
IterBlock_head_first(cfg, cells) ==
    IF Truthy(cfg.head) THEN HeadBlock(cfg, cells)
    ELSE IF cfg.full_display THEN FullBlock(cfg, cells)
    ELSE IF Truthy(cfg.tail) THEN TailBlock(cfg, cells)
    ELSE IF cfg.start = None \/ cfg.end = None THEN NoBlock
    ELSE IF is_cell_range(cfg) THEN RangeBlock(cfg, cells)
    ELSE NoBlock

(* With no branch taken block stays None, and with start or end None       *)
(* is_cell_range compares None: both raise TypeError.                      *)
IterBlock(cfg, cells) ==
    IF cfg.full_display THEN FullBlock(cfg, cells)
    ELSE IF Truthy(cfg.head) THEN HeadBlock(cfg, cells)
    ELSE IF Truthy(cfg.tail) THEN TailBlock(cfg, cells)
    ELSE IF cfg.start = None \/ cfg.end = None THEN NoBlock
    ELSE IF is_cell_range(cfg) THEN RangeBlock(cfg, cells)
    ELSE NoBlock

----------------------------------------------------------------------------
(* Cells and outputs. A cell is [cell_type, source, outputs]; an output is *)
(* [output_type, text, data], data being the sequence of <<key, val>> of   *)
(* its "data" mapping in document order.                                   *)

Cell(cell_type, source, outputs) ==
    [cell_type |-> cell_type, source |-> source, outputs |-> outputs]

Output(output_type, text, data) ==
    [output_type |-> output_type, text |-> text, data |-> data]

(* data.get(key): the value stored under key, None when the key is absent *)
DataGet(data, key) ==
    IF \E i \in 1..Len(data) : data[i][1] = key
    THEN data[CHOOSE i \in 1..Len(data) : data[i][1] = key][2]
    ELSE NoneText

----------------------------------------------------------------------------
(* FormatMixin: the panels. Every panel is a record                        *)
(* [kind, label, index, text, lexer]; the fields a kind does not use are   *)
(* None, EmptyText or "".                                                  *)

Panel(kind, label, index, text, lexer) ==
    [kind |-> kind, label |-> label, index |-> index, text |-> text,
     lexer |-> lexer]

(* The last return is the plain string "{index}": no number in it. *)
format_index(index, source_type) ==
    IF source_type = "input" THEN Panel("label", "In", index, EmptyText, "")
    ELSE IF source_type = "output" THEN Panel("label", "Out", index, EmptyText, "")
    ELSE Panel("label", "{index}", None, EmptyText, "")

get_source_text(cell) == cell.source

format_markdown(index, cell) ==
    << format_index(index, "input"),
       Panel("markdown", "", None, get_source_text(cell), "") >>

format_raw(index, cell) ==
    << format_index(index, "input"),
       Panel("panel", "", None, get_source_text(cell), "") >>

(* mutant: only "text" is skipped, so a text/plain payload is selected. *)
RECURSIVE ScanDisplayData_plain(_, _)
ScanDisplayData_plain(output, i) ==
    IF i > Len(OUTPUT_TYPES_TO_LEXER_NAMES)
    THEN [text |-> EmptyText, lexer |-> LexerOf("text")]
    ELSE LET key == OUTPUT_TYPES_TO_LEXER_NAMES[i][1]
             lexer_name == OUTPUT_TYPES_TO_LEXER_NAMES[i][2]
             val == DataGet(output.data, key)
         IN IF key = "text"
            THEN ScanDisplayData_plain(output, i + 1)
            ELSE IF Populated(val)
            THEN [text |-> PyStr(val), lexer |-> lexer_name]
            ELSE ScanDisplayData_plain(output, i + 1)

(* The display_data scan: the table's keys from position i on. *)
RECURSIVE ScanDisplayData(_, _)
ScanDisplayData(output, i) ==
    IF i > Len(OUTPUT_TYPES_TO_LEXER_NAMES)
    THEN [text |-> EmptyText, lexer |-> LexerOf("text")]
    ELSE LET key == OUTPUT_TYPES_TO_LEXER_NAMES[i][1]
             lexer_name == OUTPUT_TYPES_TO_LEXER_NAMES[i][2]
             val == DataGet(output.data, key)
         IN IF key \in {"text", "text/plain"}
            THEN ScanDisplayData(output, i + 1)
            ELSE IF Populated(val)
            THEN [text |-> PyStr(val), lexer |-> lexer_name]
            ELSE ScanDisplayData(output, i + 1)

get_output_text(output) ==
    IF output.output_type = "stream"
    THEN [text |-> output.text, lexer |-> LexerOf("text")]
    ELSE IF output.output_type = "execute_result"
    THEN [text |-> DataGet(output.data, "text/plain"),
          lexer |-> LexerOf("text/plain")]
    ELSE IF output.output_type = "display_data"
    THEN ScanDisplayData(output, 1)
    ELSE [text |-> EmptyText, lexer |-> LexerOf("text")]

(* The two panels format_code appends for one output. *)
FormatOutput(index, output) ==
    LET r == get_output_text(output) IN
    << format_index(index, "output"),
       IF can_render_in_terminal(r.lexer)
       THEN Panel("syntax", "", None, r.text, r.lexer)
       ELSE Panel("not_rendering", "", None, EmptyText, r.lexer) >>

RECURSIVE FormatOutputs(_, _)
FormatOutputs(index, outputs) ==
    IF outputs = <<>> THEN <<>>
    ELSE FormatOutput(index, Head(outputs)) \o FormatOutputs(index, Tail(outputs))

format_code(index, cell) ==
    << format_index(index, "input"),
       Panel("syntax", "", None, get_source_text(cell), "python") >>
    \o FormatOutputs(index, cell.outputs)

CellTypes == {"markdown", "code", "raw"}

(* For any other cell_type format_cell returns None (see RenderCell). *)
format_cell(index, cell) ==
    IF cell.cell_type = "markdown" THEN format_markdown(index, cell)
    ELSE IF cell.cell_type = "code" THEN format_code(index, cell)
    ELSE format_raw(index, cell)

----------------------------------------------------------------------------
(* The inputs. *)

OptInts == {None} \cup ((0 - 1)..MaxN)

Source(i) == Text("source", i, "str")

(* Documents of the selection runs: cell i is markdown, code (with one     *)
(* stream output) or raw in turn, and its source names its position.       *)
SelCell(i) ==
    IF i % 3 = 1 THEN Cell("markdown", Source(i), <<>>)
    ELSE IF i % 3 = 2
    THEN Cell("code", Source(i),
              << Output("stream", Text("stream", i, "str"), <<>>) >>)
    ELSE Cell("raw", Source(i), <<>>)

SelDoc(total) == [i \in 1..total |-> SelCell(i)]

JsonKeys ==
    {"application/vnd.jupyter.widget-view+json", "application/x-ipynb+json",
     "application/vnd.geo+json", "application/geo+json",
     "application/vnd.plotly.v1+json", "application/vdom.v1+json",
     "application/json"}

Payload(key) == Text(key, 1, IF key \in JsonKeys THEN "json" ELSE "str")

(* Keys that occur alone in a data mapping: every kind that cannot be      *)
(* rendered, html, a json kind, the text kinds, and a key the table lacks. *)
SingleKeys ==
    {"image/png", "image/jpg", "text/latex", "image/svg+xml", "image/jpeg",
     "image/gif", "application/pdf", "text/html",
     "application/vnd.plotly.v1+json", "text/plain", "text",
     "application/json"}

(* Keys that occur together, in either order. *)
PairKeys == {"text/plain", "text/html", "image/png"}

KeySeqs ==
    {s \in UNION {[1..n -> PairKeys] : n \in 2..MaxKinds} :
        \A i, j \in DOMAIN s : i # j => s[i] # s[j]}

DisplayDatas ==
    {<<>>, << <<"image/png", EmptyText>> >>}
    \cup {<< <<k, Payload(k)>> >> : k \in SingleKeys}
    \cup {[i \in DOMAIN s |-> <<s[i], Payload(s[i])>>] : s \in KeySeqs}

ExecuteDatas ==
    {<<>>,
     << <<"text/plain", Payload("text/plain")>> >>,
     << <<"image/png", Payload("image/png")>> >>,
     << <<"text/plain", Payload("text/plain")>>,
        <<"image/png", Payload("image/png")>> >>,
     << <<"image/png", Payload("image/png")>>,
        <<"text/plain", Payload("text/plain")>> >>}

FmtOutputs ==
    {Output("stream", Text("stream", 1, "str"), <<>>),
     Output("error", NoneText, <<>>)}
    \cup {Output("execute_result", NoneText, d) : d \in ExecuteDatas}
    \cup {Output("display_data", NoneText, d) : d \in DisplayDatas}

(* Documents of the formatting runs: markdown, code, raw. *)
FmtDocs ==
    {<< Cell("markdown", Source(1), <<>>),
        Cell("code", Source(2), outs),
        Cell("raw", Source(3), <<>>) >> :
     outs \in UNION {[1..n -> FmtOutputs] : n \in 0..MaxOutputs}}

(* What the path names. "url" is a URL whose download is a notebook. *)
HasNotebook(kind) == kind \in {"notebook", "url"}

Args(input_file, head, tail, st, en, full_display, exclude_output_cells) ==
    [input_file |-> input_file, head |-> head, tail |-> tail, start |-> st,
     end |-> en, full_display |-> full_display,
     exclude_output_cells |-> exclude_output_cells]

InitRun ==
    /\ pc = IF entry = "cli" THEN "click" ELSE "config"
    /\ config = NoConfig
    /\ node = <<>>
    /\ block = <<>>
    /\ start = 0
    /\ yielded = <<>>
    /\ printed = <<>>
    /\ exc = "none"
    /\ exit_code = NoExit

(* Selection runs: every combination of head, tail, start, end and         *)
(* full_display, on the command line or through Config directly.           *)
Init ==
    /\ entry \in {"cli", "api"}
    /\ \E kind \in IF entry = "cli"
                   THEN {"notebook", "url", "url_404", "missing", "dir", "not_json"}
                   ELSE {"notebook", "dir", "not_json"} :
       /\ \E h, t, st, en \in OptInts : \E f \in BOOLEAN :
             args = Args(kind, h, t, st, en, f, FALSE)
       /\ IF HasNotebook(kind)
          THEN \E total \in 0..MaxCells : notebook = SelDoc(total)
          ELSE notebook = <<>>
    /\ InitRun

(* Formatting runs: the command on a document whose code cell carries any  *)
(* of the sample outputs, with and without --exclude-output-cells. The     *)
(* default --head 10 selects every cell of these documents.                *)
InitFmt ==
    /\ entry = "cli"
    /\ \E kind \in {"notebook", "not_json"} :
       /\ \E x \in BOOLEAN : args = Args(kind, None, None, None, None, FALSE, x)
       /\ IF HasNotebook(kind)
          THEN notebook \in FmtDocs
          ELSE notebook = <<>>
    /\ InitRun

----------------------------------------------------------------------------
(* The run. *)

Abort(e, code) ==
    /\ pc' = "done"
    /\ exc' = e
    /\ exit_code' = IF entry = "cli" THEN code ELSE NoExit

(* click: an option declared IntRange(min=1) below 1 is a usage error      *)
(* (exit code 2); --head defaults to 10.                                   *)
ClickParse ==
    /\ pc = "click"
    /\ IF \E v \in {args.head, args.tail, args.start, args.end} :
             v # None /\ v < 1
       THEN /\ Abort("UsageError", 2)
            /\ UNCHANGED args
       ELSE /\ args' = [args EXCEPT
                          !.head = IF args.head = None THEN DefaultHead
                                   ELSE args.head]
            /\ pc' = "path"
            /\ UNCHANGED <<exc, exit_code>>
    /\ UNCHANGED <<entry, notebook, config, node, block, start, yielded, printed>>

(* display up to the try block: download a URL, insist the file exists.    *)
ResolvePath ==
    /\ pc = "path"
    /\ IF args.input_file = "url_404" THEN Abort("HTTPError", 0 - 1)
       ELSE IF args.input_file = "missing" THEN Abort("FileMissing", 0 - 1)
       ELSE /\ pc' = "config"
            /\ UNCHANGED <<exc, exit_code>>
    /\ UNCHANGED <<entry, args, notebook, config, node, block, start, yielded,
                   printed>>

(* Config(...): a ValidationError ends the command with exit(-1). *)
ConstructConfig ==
    /\ pc = "config"
    /\ LET r == NewConfig(args) IN
       IF r.ok
       THEN /\ config' = r.config
            /\ pc' = "parse"
            /\ UNCHANGED <<exc, exit_code>>
       ELSE /\ Abort("ValidationError", 0 - 1)
            /\ UNCHANGED config
    /\ UNCHANGED <<entry, args, notebook, node, block, start, yielded, printed>>

(* mutant: NotJSONError is swallowed and the node stays empty. *)
parse_notebook_swallows ==
    /\ pc = "parse"
    /\ node' = notebook
    /\ pc' = "iter"
    /\ UNCHANGED <<entry, args, notebook, config, block, start, yielded, printed,
                   exc, exit_code>>

(* Render.parse_notebook: NotJSONError becomes ParsingException. *)
parse_notebook ==
    /\ pc = "parse"
    /\ IF args.input_file = "not_json"
       THEN /\ Abort("ParsingException", 0 - 1)
            /\ UNCHANGED node
       ELSE /\ node' = notebook
            /\ pc' = "iter"
            /\ UNCHANGED <<exc, exit_code>>
    /\ UNCHANGED <<entry, args, notebook, config, block, start, yielded, printed>>

(* Render.iter_cells, entered by the loop of _render_to_terminal. A        *)
(* TypeError is not caught by display: the interpreter exits with 1.       *)
iter_cells ==
    /\ pc = "iter"
    /\ LET r == IterBlock(config, node) IN
       IF r.err = "none"
       THEN /\ block' = r.block
            /\ start' = r.start
            /\ pc' = "render"
            /\ UNCHANGED <<exc, exit_code>>
       ELSE /\ Abort(r.err, 1)
            /\ UNCHANGED <<block, start>>
    /\ UNCHANGED <<entry, args, notebook, config, node, yielded, printed>>

(* One turn of the loop: iter_cells yields (start, cell), format_cell      *)
(* makes the panels, render_cell prints them. format_cell returns None for *)
(* an unknown cell_type, and unpacking None for console.print raises       *)
(* TypeError.                                                              *)
render_cell ==
    /\ pc = "render"
    /\ block # <<>>
    /\ LET cell == Head(block)
           index == start + 1
       IN /\ start' = index
          /\ block' = Tail(block)
          /\ yielded' = Append(yielded, [index |-> index, cell |-> cell])
          /\ IF cell.cell_type \in CellTypes
             THEN /\ printed' = printed \o format_cell(index, cell)
                  /\ UNCHANGED <<pc, exc, exit_code>>
             ELSE /\ Abort("TypeError", 1)
                  /\ UNCHANGED printed
    /\ UNCHANGED <<entry, args, notebook, config, node>>

(* The loop is over: render returns and display ends with exit code 0. *)
Finish ==
    /\ pc = "render"
    /\ block = <<>>
    /\ pc' = "done"
    /\ exit_code' = IF entry = "cli" THEN 0 ELSE NoExit
    /\ UNCHANGED <<entry, args, notebook, config, node, block, start, yielded,
                   printed, exc>>

Next ==
    \/ ClickParse
    \/ ResolvePath
    \/ ConstructConfig
    \/ parse_notebook
    \/ iter_cells
    \/ render_cell
    \/ Finish

Spec == Init /\ [][Next]_vars

SpecFmt == InitFmt /\ [][Next]_vars

----------------------------------------------------------------------------
(* Properties. *)

(* Config(...) returned an object. *)
Constructed == pc \in {"parse", "iter", "render"} \/ (pc = "done" /\ config # NoConfig)

(* Config(...) was called: the run got past click and the path checks. *)
ConfigCalled == Constructed \/ exc = "ValidationError"

(* The loop of _render_to_terminal ran to its end. *)
Rendered == pc = "done" /\ exc = "none"

Total == Len(node)

(* C1: with full_display off, Head(n) yields exactly the first             *)
(* min(n, total) cells and Tail(n) exactly the last min(n, total) cells,   *)
(* the tail window ending at index total (also when n > total).            *)
C1_HeadTailWindow ==
    (Rendered /\ ~config.full_display) =>
        /\ config.head # None =>
              /\ Len(yielded) = Min(config.head, Total)
              /\ \A k \in 1..Len(yielded) : yielded[k].cell = node[k]
        /\ (config.head = None /\ config.tail # None) =>
              /\ Len(yielded) = Min(config.tail, Total)
              /\ \A k \in 1..Len(yielded) :
                    yielded[k].cell = node[Total - Len(yielded) + k]
              /\ start = Total

C1_Witness ==
    /\ Rendered /\ ~config.full_display
    /\ config.head = None /\ config.tail # None
    /\ Total >= 2 /\ config.tail > Total
    /\ Len(yielded) = Total

(* C2: in every mode, every yielded index is the cell's 1-based position   *)
(* in the whole document, the indices are consecutive and increasing, and  *)
(* the In/Out labels printed for a cell carry that position.               *)
C2_IndexIsPosition ==
    /\ \A k \in 1..Len(yielded) :
          /\ yielded[k].index \in 1..Total
          /\ node[yielded[k].index] = yielded[k].cell
          /\ k > 1 => yielded[k].index = yielded[k - 1].index + 1
    /\ \A q \in 1..Len(printed) :
          printed[q].kind = "label" =>
              /\ printed[q].index \in 1..Total
              /\ printed[q].label \in {"In", "Out"}
              /\ printed[q].label = "In" =>
                    printed[q + 1].text = node[printed[q].index].source
              /\ printed[q].label = "Out" =>
                    node[printed[q].index].cell_type = "code"

C2_Witness ==
    /\ Rendered /\ ~config.full_display
    /\ config.head = None /\ config.tail = None
    /\ Len(yielded) >= 2
    /\ yielded[1].index > 1

(* C3 as stated: Config with start and end supplied and start >= end       *)
(* always fails, whatever head, tail and full_display are.                 *)
C3_Original ==
    (ConfigCalled /\ args.start # None /\ args.end # None
        /\ args.start >= args.end)
    => (exc = "ValidationError" /\ ~Constructed)

(* C3 amended: such a Config fails whenever no tail >= 1 is supplied with  *)
(* it; with a tail >= 1 (and valid head, start, end and input file) the    *)
(* tail clears start and end before the range is checked, and the          *)
(* construction succeeds.                                                  *)
C3_InvalidRangeFailsWithoutTail ==
    (ConfigCalled /\ args.start # None /\ args.end # None
        /\ args.start >= args.end)
    => /\ (args.tail = None \/ args.tail < 1) =>
              (exc = "ValidationError" /\ ~Constructed)
       /\ (args.tail # None /\ args.tail >= 1 /\ args.head # None
             /\ args.head >= 1 /\ args.end >= 1 /\ args.input_file # "dir") =>
              (Constructed /\ config.tail = args.tail
                 /\ config.start = None /\ config.end = None)

C3_Witness ==
    /\ exc = "ValidationError" /\ pc = "done"
    /\ args.head = 1 /\ args.tail = None /\ args.input_file # "dir"
    /\ args.start = 2 /\ args.end = 2

(* C4 as stated: a valid range clears head and tail and selects the range  *)
(* window, also when a tail was supplied with it.                          *)
C4_Original ==
    (Constructed /\ args.start # None /\ args.end # None
        /\ args.start < args.end)
    => /\ config.head = None /\ config.tail = None
       /\ (Rendered /\ ~config.full_display) =>
             /\ Len(yielded) = Max(Min(args.end, Total) - args.start + 1, 0)
             /\ \A k \in 1..Len(yielded) :
                   yielded[k].cell = node[args.start + k - 1]

(* C4 amended: a valid range supplied without a tail clears head and tail  *)
(* and selects the range window; supplied with a tail, the tail wins: the  *)
(* range is cleared and the tail window is selected.                       *)
C4_RangeDisablesHead ==
    (Constructed /\ args.start # None /\ args.end # None
        /\ args.start < args.end)
    => IF args.tail = None
       THEN /\ config.head = None /\ config.tail = None
            /\ config.start = args.start /\ config.end = args.end
            /\ (Rendered /\ ~config.full_display) =>
                  /\ Len(yielded) = Max(Min(args.end, Total) - args.start + 1, 0)
                  /\ \A k \in 1..Len(yielded) :
                        yielded[k].cell = node[args.start + k - 1]
       ELSE /\ config.head = None /\ config.tail = args.tail
            /\ config.start = None /\ config.end = None
            /\ (Rendered /\ ~config.full_display) =>
                  /\ Len(yielded) = Min(args.tail, Total)
                  /\ \A k \in 1..Len(yielded) :
                        yielded[k].cell = node[Total - Len(yielded) + k]

C4_Witness ==
    /\ Rendered /\ ~config.full_display
    /\ args.head = 1 /\ args.tail = None
    /\ args.start = 2 /\ args.end = 3
    /\ Total = 3 /\ Len(yielded) = 2

(* C5: after a successful construction exactly one of head, tail and the   *)
(* complete range (start and end) is set; a supplied tail clears head,     *)
(* start and end; iter_cells never falls through without a block.          *)
C5_ExactlyOneMode ==
    /\ Constructed =>
          /\ Cardinality({m \in {"head", "tail", "range"} :
                 \/ m = "head" /\ config.head # None
                 \/ m = "tail" /\ config.tail # None
                 \/ m = "range" /\ config.start # None /\ config.end # None}) = 1
          /\ args.tail # None =>
                /\ config.tail = args.tail
                /\ config.head = None
                /\ config.start = None /\ config.end = None
    /\ exc # "TypeError"

C5_Witness ==
    /\ Rendered /\ ~config.full_display
    /\ args.head = 2 /\ args.tail = 1 /\ args.start = 1 /\ args.end = 3
    /\ config.tail = 1 /\ config.head = None
    /\ Len(yielded) = 1

(* C6: in Range(start, end) mode with full_display off, iter_cells yields  *)
(* exactly the cells at positions start .. min(end, total), each with its  *)
(* position as index (none when start > total).                            *)
C6_RangeWindow ==
    (Rendered /\ ~config.full_display /\ config.head = None
        /\ config.tail = None)
    => /\ 1 <= config.start /\ config.start < config.end
       /\ Len(yielded) = Max(Min(config.end, Total) - config.start + 1, 0)
       /\ \A k \in 1..Len(yielded) :
             yielded[k] = [index |-> config.start + k - 1,
                           cell |-> node[config.start + k - 1]]

C6_Witness ==
    /\ Rendered /\ ~config.full_display
    /\ config.head = None /\ config.tail = None
    /\ config.start = 2 /\ config.end > Total /\ Total = 3
    /\ Len(yielded) = 2

(* C7: with full_display set, iter_cells yields every cell exactly once,   *)
(* in document order, numbered 1 .. total, whatever head, tail, start and  *)
(* end are.                                                                *)
C7_FullDisplay ==
    (Rendered /\ config.full_display)
    => /\ Len(yielded) = Total
       /\ \A k \in 1..Total : yielded[k] = [index |-> k, cell |-> node[k]]

C7_Witness ==
    /\ Rendered /\ config.full_display
    /\ config.head = 1 /\ Total = 3
    /\ Len(yielded) = 3

(* The panels of one cell: label and source, and two per output of a code  *)
(* cell. Offset(k) is the number of panels printed before yielded[k].      *)
PanelsOf(cell) ==
    2 + (IF cell.cell_type = "code" THEN 2 * Len(cell.outputs) ELSE 0)

RECURSIVE Offset(_)
Offset(k) == IF k <= 1 THEN 0 ELSE Offset(k - 1) + PanelsOf(yielded[k - 1].cell)

OutLabelAt(k, j) == printed[Offset(k) + 2 * j + 1]
OutPanelAt(k, j) == printed[Offset(k) + 2 * j + 2]

TableKeys ==
    {OUTPUT_TYPES_TO_LEXER_NAMES[i][1] : i \in DOMAIN OUTPUT_TYPES_TO_LEXER_NAMES}

(* The table positions of the populated non-text kinds of an output. *)
Selectable(output) ==
    {i \in DOMAIN OUTPUT_TYPES_TO_LEXER_NAMES :
        /\ OUTPUT_TYPES_TO_LEXER_NAMES[i][1] \notin {"text", "text/plain"}
        /\ \E d \in DOMAIN output.data :
              /\ output.data[d][1] = OUTPUT_TYPES_TO_LEXER_NAMES[i][1]
              /\ output.data[d][2] \notin {EmptyText, NoneText}}

FirstSelectable(output) ==
    CHOOSE i \in Selectable(output) : \A j \in Selectable(output) : i <= j

Placeholder(kind) == Panel("not_rendering", "", None, EmptyText, kind)

YieldedOutputs ==
    {<<k, j>> \in (1..Len(yielded)) \X (1..(MaxOutputs + 1)) :
        /\ yielded[k].cell.cell_type = "code"
        /\ j <= Len(yielded[k].cell.outputs)}

(* C8 as stated: every populated payload of a kind that cannot be rendered *)
(* yields a placeholder for that kind, in every output record.             *)
C8_Original ==
    \A kj \in YieldedOutputs :
        LET output == yielded[kj[1]].cell.outputs[kj[2]] IN
        \A d \in DOMAIN output.data :
            (/\ output.data[d][1] \in TableKeys
             /\ output.data[d][2] \notin {EmptyText, NoneText}
             /\ LexerOf(output.data[d][1]) \in NotRenderable)
            => OutPanelAt(kj[1], kj[2]) = Placeholder(LexerOf(output.data[d][1]))

(* C8 amended: every output yields one Out label and one panel; the panel  *)
(* is the placeholder whenever the payload selected for the output (for    *)
(* display_data the populated non-text kind that comes first in the table; *)
(* stream and execute_result never select one) is of a kind that cannot be *)
(* rendered, and no syntax panel ever carries such a kind or payload. A    *)
(* payload that is not selected yields no panel. A display_data output     *)
(* whose only payload is image/png yields the Out label and the png        *)
(* placeholder, and formatting continues with the next output.             *)
C8_PlaceholderForSelected ==
    /\ Len(printed) = Offset(Len(yielded) + 1)
    /\ \A kj \in YieldedOutputs :
          LET output == yielded[kj[1]].cell.outputs[kj[2]]
              lab == OutLabelAt(kj[1], kj[2])
              pan == OutPanelAt(kj[1], kj[2])
              sels == Selectable(output)
          IN /\ lab.kind = "label" /\ lab.label = "Out"
             /\ lab.index = yielded[kj[1]].index
             /\ pan.kind \in {"syntax", "not_rendering"}
             /\ pan.kind = "syntax" =>
                   /\ pan.lexer \notin NotRenderable
                   /\ pan.text.origin \in TableKeys =>
                         LexerOf(pan.text.origin) \notin NotRenderable
             /\ pan.kind = "not_rendering" => pan.lexer \in NotRenderable
             /\ (output.output_type = "display_data" /\ sels # {}) =>
                   LET kind == OUTPUT_TYPES_TO_LEXER_NAMES[
                                   CHOOSE i \in sels : \A j \in sels : i <= j][2]
                   IN kind \in NotRenderable => pan = Placeholder(kind)
             /\ output.output_type # "display_data" => pan.kind = "syntax"
             /\ (/\ output.output_type = "display_data"
                 /\ Len(output.data) = 1
                 /\ output.data[1][1] = "image/png"
                 /\ output.data[1][2] # EmptyText)
                => pan = Placeholder("png")

C8_Witness ==
    /\ Rendered
    /\ \E kj \in YieldedOutputs :
          LET outs == yielded[kj[1]].cell.outputs IN
          /\ kj[2] = 1 /\ Len(outs) = 2
          /\ outs[1] = Output("display_data", NoneText,
                              << <<"text/latex", Payload("text/latex")>> >>)
          /\ outs[2].output_type = "stream"
          /\ OutPanelAt(kj[1], 1) = Placeholder("latex")
          /\ OutPanelAt(kj[1], 2).kind = "syntax"

(* C9: a configuration error or a parsing error ends the run before any    *)
(* cell is yielded, formatted or printed, with a non-zero exit code of the *)
(* command; a command run with valid options on a notebook ends with exit  *)
(* code 0.                                                                 *)
ValidOptions ==
    /\ \A v \in {args.head, args.tail, args.start, args.end} :
          v = None \/ v >= 1
    /\ ~(args.start # None /\ args.end # None /\ args.start >= args.end)

C9_ErrorsBeforeRendering ==
    /\ exc \in {"ValidationError", "ParsingException"} =>
          /\ pc = "done"
          /\ printed = <<>> /\ yielded = <<>>
          /\ entry = "cli" => exit_code \notin {0, NoExit}
    /\ (pc = "done" /\ entry = "cli") =>
          /\ args.input_file \in {"not_json", "dir"} =>
                (printed = <<>> /\ exit_code \notin {0, NoExit})
          /\ (args.start # None /\ args.end # None
                /\ args.start >= args.end /\ args.tail = None) =>
                (printed = <<>> /\ exit_code \notin {0, NoExit})
          /\ (HasNotebook(args.input_file) /\ ValidOptions) =>
                (exit_code = 0 /\ exc = "none")

C9_Witness ==
    /\ pc = "done" /\ entry = "cli"
    /\ exc = "ParsingException"
    /\ ValidOptions /\ args.start = 1 /\ args.end = 3
    /\ printed = <<>> /\ exit_code = 0 - 1

(* C10: with --exclude-output-cells no Out label and no output panel is    *)
(* produced: every selected code cell yields its In label and its source   *)
(* panel only.                                                             *)
C10_ExcludeOutputCells ==
    args.exclude_output_cells =>
        /\ \A q \in 1..Len(printed) : printed[q].label # "Out"
        /\ Len(printed) = 2 * Len(yielded)

(* The positions, in the output's own data, of its populated non-text      *)
(* payloads: what a scan in document order would choose from.              *)
DocSelectable(output) ==
    {d \in DOMAIN output.data :
        /\ output.data[d][1] \notin {"text", "text/plain"}
        /\ output.data[d][2] \notin {EmptyText, NoneText}}

FirstInDocument(output) ==
    CHOOSE d \in DocSelectable(output) : \A e \in DocSelectable(output) : d <= e

PayloadOf(output, key) ==
    output.data[CHOOSE d \in DOMAIN output.data : output.data[d][1] = key][2]

(* What the panel of an output shows of get_output_text's result: the      *)
(* lexer always, the text unless the panel is the placeholder.             *)
Shows(pan, text, lexer) ==
    /\ pan.lexer = lexer
    /\ pan.kind = "syntax" => pan.text = text

(* C11 as stated: for display_data the first populated non-text payload in *)
(* the output's document order is returned with its kind's renderer; with  *)
(* none, and for any type other than stream, execute_result and            *)
(* display_data, the empty text with the python (text) renderer.           *)
C11_Original ==
    \A kj \in YieldedOutputs :
        LET output == yielded[kj[1]].cell.outputs[kj[2]]
            pan == OutPanelAt(kj[1], kj[2])
        IN /\ (output.output_type = "display_data"
                 /\ DocSelectable(output) # {}) =>
                  LET sel == output.data[FirstInDocument(output)] IN
                  /\ pan.kind = "syntax" => pan.text = PyStr(sel[2])
                  /\ sel[1] \in TableKeys => pan.lexer = LexerOf(sel[1])
           /\ (\/ output.output_type = "display_data"
                     /\ DocSelectable(output) = {}
               \/ output.output_type
                     \notin {"stream", "execute_result", "display_data"}) =>
                  (pan.kind = "syntax" /\ Shows(pan, EmptyText, "python"))

(* C11 amended: for display_data the kinds of the renderer table are       *)
(* scanned in the table's order, text and text/plain skipped, and the      *)
(* first one the output has a populated payload for is returned (as a      *)
(* str) with that kind's renderer; a kind the table lacks is never         *)
(* selected. With none found, and for any type other than stream,          *)
(* execute_result and display_data, the empty text with the python (text)  *)
(* renderer is returned.                                                   *)
C11_FirstInTableOrder ==
    \A kj \in YieldedOutputs :
        LET output == yielded[kj[1]].cell.outputs[kj[2]]
            pan == OutPanelAt(kj[1], kj[2])
        IN /\ (output.output_type = "display_data"
                 /\ Selectable(output) # {}) =>
                  LET sel == OUTPUT_TYPES_TO_LEXER_NAMES[FirstSelectable(output)]
                  IN Shows(pan, PyStr(PayloadOf(output, sel[1])), sel[2])
           /\ (\/ output.output_type = "display_data"
                     /\ Selectable(output) = {}
               \/ output.output_type
                     \notin {"stream", "execute_result", "display_data"}) =>
                  (pan.kind = "syntax" /\ Shows(pan, EmptyText, "python"))

C11_Witness ==
    /\ Rendered
    /\ \E kj \in YieldedOutputs :
          LET output == yielded[kj[1]].cell.outputs[kj[2]] IN
          /\ output = Output("display_data", NoneText,
                             << <<"image/png", Payload("image/png")>>,
                                <<"text/html", Payload("text/html")>> >>)
          /\ OutPanelAt(kj[1], kj[2]) =
                Panel("syntax", "", None, Payload("text/html"), "html")

====
